---- MODULE Spec2Model ----
(***************************************************************************)
(* Model of src/main.py: the POST /analyze handler, the single-asset       *)
(* analysis pipeline behind it (symbol resolution through the lru_cache'd  *)
(* asset list, overview, history, sentiment, report assembly), and the two *)
(* pure helpers human_format and build_ascii_chart.                        *)
(*                                                                         *)
(* Text is a sequence of one-character strings, so that strip, split,      *)
(* lower and upper are computed and not assumed.  Numbers handed to        *)
(* human_format are sequences of base-1000 digits, most significant first  *)
(* (<<12, 346, 678>> is 12346678), since the values of interest reach      *)
(* 10^15 and beyond.                                                       *)
(***************************************************************************)
EXTENDS Integers, Sequences, FiniteSets, TLC

VARIABLES
    pc,             \* per request: position in handle_analyze / analyze_asset
    body,           \* per request: the JSON body received
    symbol,         \* per request: local `symbol` of handle_analyze
    coins,          \* per request: the value get_coin_list() returned to it
    coin_id,        \* per request: local `coin_id` of analyze_asset
    seen,           \* per request: the raw upstream responses it received
    trace,          \* per request: the upstream requests it issued, in order
    response,       \* per request: what the handler answered
    cache,          \* the lru_cache of get_coin_list (process wide)
    listReqs,       \* number of GET /coins/list requests issued by the process
    hf_num, hf_out,                     \* human_format: argument and result
    chart_series, chart_width, chart_out, \* build_ascii_chart: arguments, result
    res_symbol, res_list, res_out       \* symbol_to_id: arguments and result

vars == <<pc, body, symbol, coins, coin_id, seen, trace, response, cache,
          listReqs, hf_num, hf_out, chart_series, chart_width, chart_out,
          res_symbol, res_list, res_out>>

pipeVars  == <<pc, body, symbol, coins, coin_id, seen, trace, response, cache,
               listReqs>>
hfVars    == <<hf_num, hf_out>>
chartVars == <<chart_series, chart_width, chart_out>>
resVars   == <<res_symbol, res_list, res_out>>

----------------------------------------------------------------------------
(* Bounds *)

NumRequests  == 2   \* analyze requests the process serves (they may overlap)
MaxGroups    == 6   \* human_format arguments have at most this many base-1000 digits
MaxSeriesLen == 130 \* longest price series given to build_ascii_chart
MaxWidth     == 3   \* small chart widths tried besides the default
MaxListLen   == 2   \* longest generated asset list given to symbol_to_id alone
MaxSymbolLen == 2   \* longest symbol given to symbol_to_id alone

Requests == 1 .. NumRequests

----------------------------------------------------------------------------
(* Text *)

Space == " "

IsSpace(c) == c = Space

lower_char(c) ==
    CASE c = "A" -> "a"
      [] c = "B" -> "b"
      [] c = "Z" -> "z"
      [] OTHER   -> c

upper_char(c) ==
    CASE c = "a" -> "A"
      [] c = "b" -> "B"
      [] c = "z" -> "Z"
      [] OTHER   -> c

lower(s) == [i \in 1 .. Len(s) |-> lower_char(s[i])]

upper(s) == [i \in 1 .. Len(s) |-> upper_char(s[i])]

RECURSIVE lstrip(_)
lstrip(s) == IF s # <<>> /\ IsSpace(Head(s)) THEN lstrip(Tail(s)) ELSE s

RECURSIVE rstrip(_)
rstrip(s) ==
    IF s # <<>> /\ IsSpace(s[Len(s)]) THEN rstrip(SubSeq(s, 1, Len(s) - 1)) ELSE s

strip(s) == rstrip(lstrip(s))

RECURSIVE split_loop(_, _, _)
split_loop(s, cur, acc) ==
    LET flushed == IF cur = <<>> THEN acc ELSE Append(acc, cur) IN
    IF s = <<>> THEN flushed
    ELSE IF IsSpace(Head(s)) THEN split_loop(Tail(s), <<>>, flushed)
    ELSE split_loop(Tail(s), Append(cur, Head(s)), acc)

split(s) == split_loop(s, <<>>, <<>>)

----------------------------------------------------------------------------
(* human_format *)

Suffixes == <<"", "K", "M", "B", "T">>

HFGroups == {0, 1, 12, 346, 999}

HFInputs ==
    {<<>>, <<0>>} \cup
    UNION {{g \in [1 .. n -> HFGroups] : g[1] # 0} : n \in 1 .. MaxGroups}

AnyNonZero(s) == \E i \in 1 .. Len(s) : s[i] # 0

\* f"{num:.2f}" of whole + 0.frac (frac: base-1000 digits after the point).
format_2f(whole, frac) ==
    LET g     == IF frac = <<>> THEN 0 ELSE frac[1]
        rest  == frac # <<>> /\ AnyNonZero(Tail(frac))
        up    == (g % 10 > 5) \/ (g % 10 = 5 /\ rest)
        cents == (g \div 10) + (IF up THEN 1 ELSE 0)
    IN  IF cents = 100 THEN <<whole + 1, 0>> ELSE <<whole, cents>>

RECURSIVE human_format_loop(_, _, _)
human_format_loop(whole, frac, magnitude) ==
    IF Len(whole) > 1                       \* while abs(num) >= 1000
    THEN human_format_loop(SubSeq(whole, 1, Len(whole) - 1),
                           <<whole[Len(whole)]>> \o frac,
                           magnitude + 1)
    ELSE IF magnitude + 1 > Len(Suffixes)
         THEN [exc |-> "IndexError", text |-> <<0, 0>>, suffix |-> ""]
         ELSE [exc |-> "", text |-> format_2f(whole[1], frac),
               suffix |-> Suffixes[magnitude + 1]]

\* A JSON null reaching human_format is None: float(None) raises TypeError.
NoneNum == <<>>

human_format(num) ==
    IF num = NoneNum
    THEN [exc |-> "TypeError", text |-> <<0, 0>>, suffix |-> ""]
    ELSE human_format_loop(num, <<>>, 0)

----------------------------------------------------------------------------
(* build_ascii_chart *)

DefaultWidth == 60

SeqMin(s) == CHOOSE m \in {s[i] : i \in 1 .. Len(s)} :
                 \A i \in 1 .. Len(s) : m <= s[i]

SeqMax(s) == CHOOSE m \in {s[i] : i \in 1 .. Len(s)} :
                 \A i \in 1 .. Len(s) : m >= s[i]

\* One block-height glyph (0..7) per point, scaled to the min/max of the points given.
sparklines(points) ==
    IF points = <<>> THEN <<>>
    ELSE LET lo == SeqMin(points)
             hi == SeqMax(points)
         IN  [i \in 1 .. Len(points) |->
                 IF hi = lo THEN 0 ELSE ((points[i] - lo) * 7) \div (hi - lo)]

\* series[::step]
stride_slice(series, step) ==
    [k \in 1 .. ((Len(series) + step - 1) \div step) |-> series[1 + (k - 1) * step]]

build_ascii_chart(series, width) ==
    IF Len(series) < width
    THEN sparklines(series)
    ELSE LET step == Len(series) \div width
         IN  sparklines(stride_slice(series, step))

\* A price series of n daily closes.
Closes(n) == [i \in 1 .. n |-> (i * 37) % 101]

----------------------------------------------------------------------------
(* Requests and upstream responses *)

JNull   == [type |-> "null", val |-> <<>>]
JStr(s) == [type |-> "str", val |-> s]

\* The JSON bodies POSTed to /analyze.
Bodies ==
    { [has_command |-> FALSE, command |-> JNull],
      [has_command |-> TRUE,  command |-> JNull],
      [has_command |-> TRUE,  command |-> JStr(<<>>)],
      [has_command |-> TRUE,  command |-> JStr(<<" ", " ">>)],
      [has_command |-> TRUE,  command |-> JStr(<<"b">>)],
      [has_command |-> TRUE,  command |-> JStr(<<"a", " ", "B", " ">>)],
      [has_command |-> TRUE,  command |-> JStr(<<"b", " ", " ", "z">>)] }

None == "<None>"

\* Asset lists the provider may answer with ((symbol, id) pairs, in its order).
CoinList1 ==
    << [symbol |-> <<"b", "z">>, id |-> "bz-coin"],
       [symbol |-> <<"B">>,      id |-> "bitcoin"],
       [symbol |-> <<"b">>,      id |-> "bitcoin-peg"],
       [symbol |-> <<"z">>,      id |-> ""] >>

CoinList2 == << [symbol |-> <<"a">>, id |-> "aave"] >>

ListResponses ==
    { [status |-> 200, json |-> CoinList1],
      [status |-> 200, json |-> CoinList2],
      [status |-> 500, json |-> <<>>] }

OvGood ==
    [has_market_data |-> TRUE, name |-> "Bitcoin",
     market_cap |-> <<1, 0, 0, 0, 0>>, total_volume |-> <<20, 0, 0, 0>>,
     circulating_supply |-> <<19, 346, 0>>, total_supply |-> NoneNum]

OvHuge ==
    [has_market_data |-> TRUE, name |-> "Baby Doge",
     market_cap |-> <<346, 0, 0>>, total_volume |-> <<12, 0, 0>>,
     circulating_supply |-> <<1, 0, 0, 0, 0, 0>>, total_supply |-> <<999, 0, 0, 0, 0>>]

OvNoMarketData ==
    [has_market_data |-> FALSE, name |-> "", market_cap |-> NoneNum,
     total_volume |-> NoneNum, circulating_supply |-> NoneNum,
     total_supply |-> NoneNum]

OverviewResponses ==
    { [status |-> 200, json |-> OvGood],
      [status |-> 200, json |-> OvHuge],
      [status |-> 200, json |-> OvNoMarketData],
      [status |-> 500, json |-> OvNoMarketData] }

\* market_chart answers; rows is the number of [timestamp, price] pairs.
HistoryResponses ==
    { [status |-> 200, rows |-> 366],
      [status |-> 200, rows |-> 0],
      [status |-> 500, rows |-> 0] }

\* Fear & Greed answers: no answer within the timeout, or a status and a payload
\* that does or does not hold data[0].value / value_classification.
SentimentResponses ==
    { [timeout |-> TRUE,  status |-> 0,   has_data |-> FALSE],
      [timeout |-> FALSE, status |-> 200, has_data |-> TRUE],
      [timeout |-> FALSE, status |-> 200, has_data |-> FALSE],
      [timeout |-> FALSE, status |-> 500, has_data |-> TRUE] }

NoResp == [status |-> 0, absent |-> TRUE]

NoSeen == [list |-> NoResp, overview |-> NoResp, history |-> NoResp,
           sentiment |-> NoResp]

NoResponse == [status |-> 0, kind |-> "none", body |-> [type |-> "none"]]

EmptyCache == [full |-> FALSE, value |-> <<>>]

----------------------------------------------------------------------------
(* The pipeline's functions *)

\* requests' Response.raise_for_status(): TRUE when it raises HTTPError.
raise_for_status(resp) == resp.status >= 400 /\ resp.status < 600

\* Mutant: the cache is never consulted (the decorator dropped).
lru_cache_never_hit(c) == FALSE

\* functools.lru_cache(maxsize=1) around get_coin_list: is the call a hit?
lru_cache_hit(c) == c.full

\* lru_cache stores a result only when the wrapped call returned, and keeps the
\* entry already there when another call stored one meanwhile.
lru_cache_store(c, result) ==
    IF c.full THEN c ELSE [full |-> TRUE, value |-> result]

\* The body of get_coin_list on a miss: the exception raised ("" for none) and
\* the value returned.
get_coin_list(resp) ==
    IF raise_for_status(resp)
    THEN [exc |-> "HTTPError", val |-> <<>>]
    ELSE [exc |-> "", val |-> resp.json]

RECURSIVE symbol_to_id_loop(_, _, _)
symbol_to_id_loop(sym, list, i) ==
    IF i > Len(list) THEN None
    ELSE IF lower(list[i].symbol) = sym THEN list[i].id
    ELSE symbol_to_id_loop(sym, list, i + 1)

\* Mutant: the entry's symbol is compared without .lower().
RECURSIVE symbol_to_id_case_loop(_, _, _)
symbol_to_id_case_loop(sym, list, i) ==
    IF i > Len(list) THEN None
    ELSE IF list[i].symbol = sym THEN list[i].id
    ELSE symbol_to_id_case_loop(sym, list, i + 1)

symbol_to_id_case_sensitive(sym, list) == symbol_to_id_case_loop(lower(sym), list, 1)

symbol_to_id(sym, list) == symbol_to_id_loop(lower(sym), list, 1)

\* Mutant: the test is dropped and the pipeline goes on with whatever id it has.
not_coin_id_dropped(id) == FALSE

\* `not coin_id`
not_coin_id(id) == id = None \/ id = ""

\* Mutant: the overview's failures are swallowed instead of raised.
fetch_market_overview_swallow(resp) == [exc |-> "", val |-> resp.json]

fetch_market_overview(resp) ==
    IF raise_for_status(resp) THEN [exc |-> "HTTPError", val |-> OvNoMarketData]
    ELSE IF ~resp.json.has_market_data THEN [exc |-> "KeyError", val |-> OvNoMarketData]
    ELSE [exc |-> "", val |-> resp.json]

\* fetch_ohlc, compute_technicals and df_ta.iloc[-1]: the exception raised and
\* the number of rows of df.
fetch_ohlc(resp) ==
    IF raise_for_status(resp) THEN [exc |-> "HTTPError", val |-> 0]
    ELSE IF resp.rows = 0 THEN [exc |-> "IndexError", val |-> 0]
    ELSE [exc |-> "", val |-> resp.rows]

\* The try/except around the Fear & Greed request: (fear_greed, fng_text).
fear_and_greed(resp) ==
    IF resp.timeout \/ ~resp.has_data
    THEN [fear_greed |-> "N/A", fng_text |-> "Unavailable"]
    ELSE [fear_greed |-> "50", fng_text |-> "Neutral"]

\* chart_ascii = build_ascii_chart(df["close"].values), for each history length
\* the provider may answer with.
price_chart ==
    [n \in {resp.rows : resp \in HistoryResponses} |->
        build_ascii_chart(Closes(n), DefaultWidth)]

truthy_num(num) == num # NoneNum /\ num # <<0>>

\* Report assembly: the first exception raised by the formatting, or the report.
assemble_report(overview, rows, fng) ==
    LET cap   == human_format(overview.market_cap)
        vol   == human_format(overview.total_volume)
        circ  == human_format(overview.circulating_supply)
        total == IF truthy_num(overview.total_supply)
                 THEN human_format(overview.total_supply)
                 ELSE [exc |-> "", text |-> <<0, 0>>, suffix |-> "infinite"]
        excs  == SelectSeq(<<cap.exc, vol.exc, circ.exc, total.exc>>,
                           LAMBDA e : e # "")
    IN  IF excs # <<>>
        THEN [exc |-> excs[1], val |-> [type |-> "none"]]
        ELSE [exc |-> "",
              val |-> [type        |-> "report",
                       name        |-> overview.name,
                       market_cap  |-> <<cap.text, cap.suffix>>,
                       volume      |-> <<vol.text, vol.suffix>>,
                       supply      |-> <<circ.text, circ.suffix>>,
                       total       |-> <<total.text, total.suffix>>,
                       chart       |-> price_chart[rows],
                       fear_greed  |-> fng.fear_greed,
                       fng_text    |-> fng.fng_text]]

\* Mutant: the first token is taken instead of the last.
parse_symbol_first(command) == upper(split(command)[1])

\* handle_analyze, line 205
parse_symbol(command) == LET tokens == split(command) IN upper(tokens[Len(tokens)])

OkReport(report)  == [status |-> 200, kind |-> "report", body |-> report]
NotFound(sym)     == [type |-> "not_found", symbol |-> sym]
ErrorResponse(code, msg) ==
    [status |-> code, kind |-> "error", body |-> [type |-> "error", msg |-> msg]]
\* An exception leaving handle_analyze: the framework answers 500 without the
\* handler's JSON body.
Unhandled(exc) ==
    [status |-> 500, kind |-> "unhandled", body |-> [type |-> "exception", msg |-> exc]]

----------------------------------------------------------------------------
(* State machine of the request handler and the pipeline *)

HFPending    == [exc |-> "pending", text |-> <<0, 0>>, suffix |-> ""]
ChartPending == [done |-> FALSE, glyphs |-> <<>>]

PipeInit ==
    /\ pc       = [r \in Requests |-> "idle"]
    /\ body     = [r \in Requests |-> [has_command |-> FALSE, command |-> JNull]]
    /\ symbol   = [r \in Requests |-> <<>>]
    /\ coins    = [r \in Requests |-> <<>>]
    /\ coin_id  = [r \in Requests |-> None]
    /\ seen     = [r \in Requests |-> NoSeen]
    /\ trace    = [r \in Requests |-> <<>>]
    /\ response = [r \in Requests |-> NoResponse]
    /\ cache    = EmptyCache
    /\ listReqs = 0

HFIdle    == hf_num = <<0>> /\ hf_out = HFPending
ChartIdle == chart_series = <<>> /\ chart_width = DefaultWidth /\ chart_out = ChartPending

ResPending == "<pending>"
ResIdle   == res_symbol = <<>> /\ res_list = <<>> /\ res_out = ResPending

Init == PipeInit /\ HFIdle /\ ChartIdle /\ ResIdle

\* data.get("command", "")
data_get_command(data) == IF data.has_command THEN data.command ELSE JStr(<<>>)

\* return jsonify(...) / an exception leaving the handler: the request is answered.
Respond(r, resp) ==
    /\ pc' = [pc EXCEPT ![r] = "responded"]
    /\ response' = [response EXCEPT ![r] = resp]

\* handle_analyze up to the call of analyze_asset.  Requests are numbered in
\* the order in which they arrive.
HandleAnalyze(r) ==
    /\ pc[r] = "idle"
    /\ \A q \in Requests : q < r => pc[q] # "idle"
    /\ \E data \in Bodies :
         LET raw == data_get_command(data) IN
         /\ body' = [body EXCEPT ![r] = data]
         /\ IF raw.type # "str"
            THEN \* None.strip(): AttributeError, raised before the try block
                 /\ Respond(r, Unhandled("AttributeError"))
                 /\ UNCHANGED symbol
            ELSE LET command == strip(raw.val) IN
                 IF command = <<>>
                 THEN /\ Respond(r, ErrorResponse(400, "No command provided."))
                      /\ UNCHANGED symbol
                 ELSE /\ symbol' = [symbol EXCEPT ![r] = parse_symbol(command)]
                      /\ pc' = [pc EXCEPT ![r] = "get_coin_list"]
                      /\ UNCHANGED response
    /\ UNCHANGED <<coins, coin_id, seen, trace, cache, listReqs, hfVars, chartVars, resVars>>

\* symbol_to_id over the list get_coin_list() returned, and `if not coin_id`.
Resolve(r, list) ==
    LET id == symbol_to_id(symbol[r], list) IN
    /\ coins' = [coins EXCEPT ![r] = list]
    /\ coin_id' = [coin_id EXCEPT ![r] = id]
    /\ IF not_coin_id(id)
       THEN Respond(r, OkReport(NotFound(symbol[r])))
       ELSE /\ pc' = [pc EXCEPT ![r] = "overview"]
            /\ UNCHANGED response

\* The call get_coin_list() in symbol_to_id: the lru_cache lookup.
CallGetCoinList(r) ==
    /\ pc[r] = "get_coin_list"
    /\ IF lru_cache_hit(cache)
       THEN Resolve(r, cache.value)
       ELSE /\ pc' = [pc EXCEPT ![r] = "coins_list_http"]
            /\ UNCHANGED <<coins, coin_id, response>>
    /\ UNCHANGED <<body, symbol, seen, trace, cache, listReqs, hfVars, chartVars, resVars>>

\* On a miss: the body of get_coin_list, the store of its result, and the rest
\* of symbol_to_id.
FetchCoinList(r) ==
    /\ pc[r] = "coins_list_http"
    /\ \E resp \in ListResponses :
         LET out == get_coin_list(resp) IN
         /\ listReqs' = listReqs + 1
         /\ trace' = [trace EXCEPT ![r] = Append(@, "list")]
         /\ seen' = [seen EXCEPT ![r].list = resp]
         /\ IF out.exc # ""
            THEN /\ Respond(r, ErrorResponse(500, out.exc))
                 /\ UNCHANGED <<cache, coins, coin_id>>
            ELSE /\ cache' = lru_cache_store(cache, out.val)
                 /\ Resolve(r, out.val)
    /\ UNCHANGED <<body, symbol, hfVars, chartVars, resVars>>

FetchMarketOverview(r) ==
    /\ pc[r] = "overview"
    /\ \E resp \in OverviewResponses :
         LET out == fetch_market_overview(resp) IN
         /\ trace' = [trace EXCEPT ![r] = Append(@, "overview")]
         /\ seen' = [seen EXCEPT ![r].overview = resp]
         /\ IF out.exc # ""
            THEN Respond(r, ErrorResponse(500, out.exc))
            ELSE /\ pc' = [pc EXCEPT ![r] = "history"]
                 /\ UNCHANGED response
    /\ UNCHANGED <<body, symbol, coins, coin_id, cache, listReqs, hfVars, chartVars, resVars>>

\* fetch_ohlc, compute_technicals, latest = df_ta.iloc[-1], support/resistance.
FetchOhlc(r) ==
    /\ pc[r] = "history"
    /\ \E resp \in HistoryResponses :
         LET out == fetch_ohlc(resp) IN
         /\ trace' = [trace EXCEPT ![r] = Append(@, "history")]
         /\ seen' = [seen EXCEPT ![r].history = resp]
         /\ IF out.exc # ""
            THEN Respond(r, ErrorResponse(500, out.exc))
            ELSE /\ pc' = [pc EXCEPT ![r] = "sentiment"]
                 /\ UNCHANGED response
    /\ UNCHANGED <<body, symbol, coins, coin_id, cache, listReqs, hfVars, chartVars, resVars>>

\* The Fear & Greed request, the assembly of the report, and the handler's
\* return or except clause.
FetchSentimentAndReport(r) ==
    /\ pc[r] = "sentiment"
    /\ \E resp \in SentimentResponses :
         LET overview == fetch_market_overview(seen[r].overview).val
             rows     == fetch_ohlc(seen[r].history).val
             out      == assemble_report(overview, rows, fear_and_greed(resp))
         IN
         /\ trace' = [trace EXCEPT ![r] = Append(@, "sentiment")]
         /\ seen' = [seen EXCEPT ![r].sentiment = resp]
         /\ IF out.exc # ""
            THEN Respond(r, ErrorResponse(500, out.exc))
            ELSE Respond(r, OkReport(out.val))
    /\ UNCHANGED <<body, symbol, coins, coin_id, cache, listReqs, hfVars, chartVars, resVars>>

Next ==
    \E r \in Requests :
        \/ HandleAnalyze(r)
        \/ CallGetCoinList(r)
        \/ FetchCoinList(r)
        \/ FetchMarketOverview(r)
        \/ FetchOhlc(r)
        \/ FetchSentimentAndReport(r)

Spec == Init /\ [][Next]_vars

----------------------------------------------------------------------------
(* human_format and build_ascii_chart applied to bounded inputs *)

InitHF == PipeInit /\ ChartIdle /\ ResIdle /\ hf_num \in HFInputs /\ hf_out = HFPending

HumanFormatCall ==
    /\ hf_out = HFPending
    /\ hf_out' = human_format(hf_num)
    /\ UNCHANGED <<pipeVars, hf_num, chartVars, resVars>>

NextHF == HumanFormatCall

SpecHF == InitHF /\ [][NextHF]_vars

ChartWidths == (1 .. MaxWidth) \cup {DefaultWidth}

InitChart ==
    /\ PipeInit /\ HFIdle /\ ResIdle
    /\ chart_series \in {Closes(n) : n \in 0 .. MaxSeriesLen}
    /\ chart_width \in ChartWidths
    /\ chart_out = ChartPending

BuildAsciiChartCall ==
    /\ chart_out = ChartPending
    /\ chart_out' = [done |-> TRUE, glyphs |-> build_ascii_chart(chart_series, chart_width)]
    /\ UNCHANGED <<pipeVars, hfVars, chart_series, chart_width, resVars>>

NextChart == BuildAsciiChartCall

SpecChart == InitChart /\ [][NextChart]_vars

----------------------------------------------------------------------------
(* symbol_to_id applied to bounded inputs *)

Letters == {"a", "A", "b", "B", "z", "Z"}

SymbolInputs == UNION {[1 .. n -> Letters] : n \in 1 .. MaxSymbolLen}

CoinEntries ==
    {CoinList1[i] : i \in 1 .. Len(CoinList1)} \cup
    {CoinList2[i] : i \in 1 .. Len(CoinList2)}

ListInputs ==
    {CoinList1} \cup UNION {[1 .. n -> CoinEntries] : n \in 0 .. MaxListLen}

InitResolve ==
    /\ PipeInit /\ HFIdle /\ ChartIdle
    /\ res_symbol \in SymbolInputs
    /\ res_list \in ListInputs
    /\ res_out = ResPending

SymbolToIdCall ==
    /\ res_out = ResPending
    /\ res_out' = symbol_to_id(res_symbol, res_list)
    /\ UNCHANGED <<pipeVars, hfVars, chartVars, res_symbol, res_list>>

NextResolve == SymbolToIdCall

SpecResolve == InitResolve /\ [][NextResolve]_vars

----------------------------------------------------------------------------
(* Vocabulary of the properties, stated apart from the functions above *)

CasePairs == {<<"a", "A">>, <<"b", "B">>, <<"z", "Z">>}

SameLetter(c, d) == c = d \/ <<c, d>> \in CasePairs \/ <<d, c>> \in CasePairs

EqIgnoreCase(s, t) ==
    Len(s) = Len(t) /\ \A i \in 1 .. Len(s) : SameLetter(s[i], t[i])

IsUpperCase(s) == \A i \in 1 .. Len(s) : \A p \in CasePairs : s[i] # p[1]

Blank(s) == \A i \in 1 .. Len(s) : s[i] = " "

\* The command is missing, null, empty or whitespace only.
CommandAbsent(data) ==
    ~data.has_command \/ data.command.type = "null" \/ Blank(data.command.val)

\* The last maximal run of non-space characters of a non-blank text.
LastTokenOf(s) ==
    LET j == CHOOSE k \in 1 .. Len(s) :
                 s[k] # " " /\ \A m \in (k + 1) .. Len(s) : s[m] = " "
        i == CHOOSE k \in 1 .. j :
                 /\ \A m \in k .. j : s[m] # " "
                 /\ (k = 1 \/ s[k - 1] = " ")
    IN  SubSeq(s, i, j)

\* The last token of each request body that carries a command.
LastToken ==
    [data \in {b \in Bodies : ~CommandAbsent(b)} |-> LastTokenOf(data.command.val)]

Matches(sym, list) == {i \in 1 .. Len(list) : EqIgnoreCase(list[i].symbol, sym)}

FirstOf(S) == CHOOSE i \in S : \A j \in S : i <= j

Answered(r) == pc[r] = "responded"

\* r went through symbol resolution with a list in hand.
Resolved(r) == coins[r] # <<>>

Non2xx(resp) == resp.status < 200 \/ resp.status > 299

ListFailed(r)     == seen[r].list # NoResp /\ Non2xx(seen[r].list)
OverviewFailed(r) ==
    /\ seen[r].overview # NoResp
    /\ (Non2xx(seen[r].overview) \/ ~seen[r].overview.json.has_market_data)
HistoryFailed(r)  == seen[r].history # NoResp /\ Non2xx(seen[r].history)
SentimentFailed(r) ==
    /\ seen[r].sentiment # NoResp
    /\ \/ seen[r].sentiment.timeout
       \/ Non2xx(seen[r].sentiment)
       \/ ~seen[r].sentiment.has_data

Below10e15(ov) ==
    /\ Len(ov.market_cap) \in 1 .. 5
    /\ Len(ov.total_volume) \in 1 .. 5
    /\ Len(ov.circulating_supply) \in 1 .. 5
    /\ Len(ov.total_supply) <= 5

NoPendingMiss == \A r \in Requests : pc[r] # "coins_list_http"

----------------------------------------------------------------------------
(* Properties *)

\* C1: a request whose command is missing, null, empty or whitespace only is
\* answered 400 {"error": "No command provided."} and reaches no upstream
\* endpoint nor the asset-list cache.
C1_EmptyCommandIs400 ==
    \A r \in Requests :
        (Answered(r) /\ CommandAbsent(body[r])) =>
            /\ response[r].status = 400
            /\ response[r].kind = "error"
            /\ response[r].body.msg = "No command provided."
            /\ trace[r] = <<>>
            /\ seen[r] = NoSeen
            /\ ~Resolved(r)

\* C2 (as claimed): the asset-list endpoint is requested at most once per process,
\* also after a failed fetch and under interleaved requests.
C2_ListFetchedAtMostOnce == listReqs <= 1

\* C2 (amended): once the cache holds a list and no request that missed it is
\* still about to fetch, no request misses again and the asset-list endpoint is
\* never requested again.
C2_NoFetchOncePopulated ==
    [][(cache.full /\ NoPendingMiss) => (NoPendingMiss' /\ listReqs' = listReqs)]_vars

\* C2 witness: one request fetched the list and filled the cache; another
\* resolved its symbol from the cached list without asking the provider.
C2_Witness ==
    /\ cache.full /\ NoPendingMiss
    /\ listReqs = 1
    /\ \E r1, r2 \in Requests :
         /\ trace[r1] # <<>> /\ trace[r1][1] = "list" /\ ~ListFailed(r1)
         /\ Resolved(r2) /\ coins[r2] = cache.value
         /\ \A i \in 1 .. Len(trace[r2]) : trace[r2][i] # "list"

\* C3: when resolution, overview and history succeeded and the sentiment fetch
\* failed (timeout, non-2xx, malformed payload), the answer is a 200 report
\* whose sentiment line reads N/A (Unavailable).  Stated for overviews whose
\* aggregates are below 10^15, so that a violation is the sentiment client's own
\* and not human_format's (C7).
C3_SentimentFailureAbsorbed ==
    \A r \in Requests :
        (Answered(r) /\ Resolved(r) /\ ~OverviewFailed(r) /\ ~HistoryFailed(r)
            /\ SentimentFailed(r) /\ Below10e15(seen[r].overview.json)) =>
            /\ response[r].status = 200
            /\ response[r].kind = "report"
            /\ response[r].body.type = "report"
            /\ response[r].body.fear_greed = "N/A"
            /\ response[r].body.fng_text = "Unavailable"

\* C4: a failure anywhere in the pipeline is answered 500 {"error": message}
\* with no report, and every answer is either a 200 "report" or a 400/500
\* "error".
C4_EveryAnswerReportOrError ==
    \A r \in Requests :
        Answered(r) =>
            /\ \/ response[r].kind = "report" /\ response[r].status = 200
               \/ response[r].kind = "error" /\ response[r].status \in {400, 500}
            /\ (ListFailed(r) \/ OverviewFailed(r) \/ HistoryFailed(r)) =>
                   /\ response[r].status = 500
                   /\ response[r].kind = "error"
                   /\ response[r].body.msg \in {"HTTPError", "KeyError", "IndexError"}

\* C5: when no entry of the list matches the symbol, the request is answered 200
\* with the not-found message as the report, and no overview, history or
\* sentiment request is issued.
C5_NotFoundShortCircuits ==
    \A r \in Requests :
        (Resolved(r) /\ Matches(symbol[r], coins[r]) = {}) =>
            /\ Answered(r)
            /\ response[r].status = 200
            /\ response[r].kind = "report"
            /\ response[r].body = [type |-> "not_found", symbol |-> symbol[r]]
            /\ \A i \in 1 .. Len(trace[r]) : trace[r][i] = "list"
            /\ seen[r].overview = NoResp
            /\ seen[r].history = NoResp
            /\ seen[r].sentiment = NoResp

\* C5 witness: a request fetched a list holding no entry for its symbol and was
\* answered.
C5_Witness ==
    \E r \in Requests :
        /\ Answered(r) /\ Resolved(r)
        /\ trace[r] = <<"list">>
        /\ Matches(symbol[r], coins[r]) = {}

\* C6: symbol_to_id returns the id of the first entry, in list order, whose
\* symbol equals the requested one ignoring case (the whole symbol), and None
\* exactly when no entry matches.
C6_ResolveFirstMatch ==
    res_out # ResPending =>
        LET M == Matches(res_symbol, res_list) IN
        /\ (M = {}) <=> (res_out = None)
        /\ M # {} => res_out = res_list[FirstOf(M)].id

\* C6 witness: a mixed-case symbol resolved to the first of several entries
\* matching it, with a longer symbol starting with it earlier in the list.
C6_Witness ==
    /\ res_out = "bitcoin"
    /\ res_symbol = <<"B">>
    /\ Cardinality(Matches(res_symbol, res_list)) = 2
    /\ FirstOf(Matches(res_symbol, res_list)) = 2

\* C7: for n >= 1, human_format returns the suffix at index
\* min(floor(log1000 n), 4) of ('', K, M, B, T), never fails (10^15 and above
\* get T), and the number formatted lies in [1, 1000) unless the suffix is T
\* (so its two-decimal rendering lies in 1.00 .. 1000.00).
C7_HumanFormatClamped ==
    (hf_out # HFPending /\ hf_num # NoneNum /\ hf_num # <<0>>) =>
        LET mag == IF Len(hf_num) - 1 > 4 THEN 4 ELSE Len(hf_num) - 1 IN
        /\ hf_out.exc = ""
        /\ hf_out.suffix = Suffixes[mag + 1]
        /\ hf_out.suffix # "T" =>
               \/ hf_out.text[1] >= 1 /\ hf_out.text[1] < 1000
               \/ hf_out.text = <<1000, 0>>

\* C8: build_ascii_chart emits one glyph per point of a series shorter than
\* width; otherwise it samples every floor(length/width)-th point from the
\* first and emits at most width glyphs.
C8_ChartAtMostWidth ==
    chart_out.done =>
        LET n == Len(chart_series)
            w == chart_width
            k == Len(chart_out.glyphs)
        IN  IF n < w
            THEN k = n
            ELSE /\ k <= w
                 /\ chart_out.glyphs =
                        sparklines([j \in 1 .. k |-> chart_series[1 + (j - 1) * (n \div w)]])

\* C9: the symbol is the last whitespace-separated token of the command,
\* uppercased; two requests whose last tokens are equal ignoring case, given the
\* same upstream answers, resolve to the same asset and get the same response,
\* whatever the other tokens.
C9_OnlyLastTokenMatters ==
    /\ \A r \in Requests :
         (pc[r] # "idle" /\ ~CommandAbsent(body[r])) =>
             /\ EqIgnoreCase(symbol[r], LastToken[body[r]])
             /\ IsUpperCase(symbol[r])
    /\ \A r1, r2 \in Requests :
         ( /\ r1 < r2
           /\ Answered(r1) /\ Answered(r2)
           /\ ~CommandAbsent(body[r1]) /\ ~CommandAbsent(body[r2])
           /\ coins[r1] = coins[r2]
           /\ seen[r1].overview = seen[r2].overview
           /\ seen[r1].history = seen[r2].history
           /\ seen[r1].sentiment = seen[r2].sentiment
           /\ ListFailed(r1) = ListFailed(r2)
           /\ EqIgnoreCase(LastToken[body[r1]], LastToken[body[r2]]) )
         => (coin_id[r1] = coin_id[r2] /\ response[r1] = response[r2])

\* C9 witness: "b" and "a B " were both answered with the same full report for
\* the same asset.
C9_Witness ==
    \E r1, r2 \in Requests :
        /\ body[r1].command = JStr(<<"b">>)
        /\ body[r2].command = JStr(<<"a", " ", "B", " ">>)
        /\ Answered(r1) /\ Answered(r2)
        /\ response[r1].body.type = "report"
        /\ response[r1] = response[r2]
        /\ coin_id[r1] = "bitcoin" /\ coin_id[r2] = "bitcoin"

AllowedTraces ==
    { <<>>, <<"list">>, <<"list", "overview">>, <<"list", "overview", "history">>,
      <<"list", "overview", "history", "sentiment">>,
      <<"overview">>, <<"overview", "history">>,
      <<"overview", "history", "sentiment">> }

\* C10: within a request each endpoint is requested at most once, in the order
\* list, overview, history, sentiment, and after a failed list, overview or
\* history fetch no further request is issued.
C10_StagesOnceInOrder ==
    \A r \in Requests :
        /\ trace[r] \in AllowedTraces
        /\ ListFailed(r) => trace[r] = <<"list">>
        /\ OverviewFailed(r) => trace[r][Len(trace[r])] = "overview"
        /\ HistoryFailed(r) => trace[r][Len(trace[r])] = "history"
        /\ (ListFailed(r) \/ OverviewFailed(r) \/ HistoryFailed(r)) => Answered(r)

\* C10 witness: one request went through all four stages, another stopped at a
\* failed overview fetch.
C10_Witness ==
    \E r1, r2 \in Requests :
        /\ trace[r1] = <<"list", "overview", "history", "sentiment">>
        /\ Answered(r1)
        /\ trace[r2] = <<"overview">>
        /\ OverviewFailed(r2) /\ Answered(r2)

====
